---- MODULE Spec2Model ----
(***************************************************************************)
(* Request handler of the Connect browser SDK                              *)
(* (packages/browser/src/request/request.ts): the status state machine,    *)
(* the request queue and dispatcher, the version gate and the transport    *)
(* selection of RequestHandler.init, together with the transport adapter   *)
(* it talks to.                                                            *)
(*                                                                         *)
(* The handler runs on a single-threaded event loop: every action below    *)
(* is one event (an API call, a response delivered by the adapter, a       *)
(* timer) run to completion, with every nested call it makes.              *)
(***************************************************************************)
EXTENDS Integers, Sequences, FiniteSets, TLC

(***************************************************************************)
(* Bounds of the model.                                                    *)
(***************************************************************************)
\* Request ids are drawn from 0 .. MaxId-1: no id is allocated beyond it.
MaxId == 3

\* At most MaxListeners status listeners are registered with Connect.
MaxListeners == 2

(***************************************************************************)
(* Program constants.                                                      *)
(***************************************************************************)
MAX_POLLING_ERRORS == 3

\* options.maxActivityOutstanding || 2 (connect.ts:172), the option not given.
MAX_ACTIVITY_OUTSTANDING == 2

\* Versions are dotted numbers, modelled as sequences of naturals;
\* the empty string is the empty sequence.
MIN_SECURE_VERSION == <<3, 8, 0>>
EmptyVersion == <<>>

\* STATUS of shared/sharedInternals, as used by the handler.
INITIALIZING == "INITIALIZING"
RETRYING == "RETRYING"
RUNNING == "RUNNING"
OUTDATED == "OUTDATED"
FAILED == "FAILED"
STOPPED == "STOPPED"
WAITING == "WAITING"
DEGRADED == "DEGRADED"
EXTENSION_INSTALL == "EXTENSION_INSTALL"

STATUS ==
  {INITIALIZING, RETRYING, RUNNING, OUTDATED, FAILED, STOPPED, WAITING,
   DEGRADED, EXTENSION_INSTALL}

HTTP_METHOD == [GET |-> "GET", POST |-> "POST"]

EVENT == [ALL |-> "all", TRANSFER |-> "transfer", STATUS |-> "status"]

\* Paths are sequences of segments, so that String.indexOf is computed.
ActivityPath == <<"/connect", "/transfers", "/activity">>
PrefixedActivityPath == <<"/v6", "/connect", "/transfers", "/activity">>
TransferStartPath == <<"/connect", "/transfers", "/start">>
VersionPath == <<"/connect", "/info", "/version">>
UpdateRequirePath == <<"/connect", "/update", "/require">>

(***************************************************************************)
(* Inputs.                                                                 *)
(***************************************************************************)
\* (method, path) pairs a caller passes to start.
StartRequests ==
  { [method |-> "POST", path |-> ActivityPath],
    [method |-> "POST", path |-> PrefixedActivityPath] }

\* options.minVersion given to init ('' when the caller gives none).
CallerMinVersions == {EmptyVersion, <<3, 7, 0>>, <<3, 9, 0>>}

\* Versions the agent may report.
AgentVersions == {<<3, 7, 0>>, <<3, 9, 0>>}

\* Responses of the agent to GET /connect/info/version.
VersionResponses ==
  { [httpCode |-> 0, hasError |-> FALSE, version |-> EmptyVersion],
    [httpCode |-> 500, hasError |-> TRUE, version |-> EmptyVersion],
    [httpCode |-> 200, hasError |-> TRUE, version |-> EmptyVersion] }
  \cup { [httpCode |-> 200, hasError |-> FALSE, version |-> v] : v \in AgentVersions }

\* Versions the agent may report to the version gate: below the floor, the
\* floor itself, above it.
GateAgentVersions == AgentVersions \cup {MIN_SECURE_VERSION}

GateVersionResponses ==
  VersionResponses
  \cup { [httpCode |-> 200, hasError |-> FALSE, version |-> v] : v \in GateAgentVersions }

\* Responses of the agent to an ordinary request.
RequestResponses ==
  { [httpCode |-> 0, hasError |-> FALSE, version |-> EmptyVersion],
    [httpCode |-> 500, hasError |-> TRUE, version |-> EmptyVersion],
    [httpCode |-> 200, hasError |-> TRUE, version |-> EmptyVersion],
    [httpCode |-> 200, hasError |-> FALSE, version |-> EmptyVersion] }

\* Statuses the adapter reports through requestStatusCallback.
AdapterSignals == {RUNNING, WAITING, DEGRADED}

(***************************************************************************)
(* State.                                                                  *)
(***************************************************************************)
VARIABLES
  connectStatus,         \* RequestHandler.connectStatus
  nextId,                \* RequestHandler.nextId
  idCallbackHash,        \* RequestHandler.idCallbackHash: id -> IRequest
  requestQueue,          \* RequestHandler.requestQueue
  statusListener,        \* RequestHandler.statusListener
  minVersion,            \* RequestHandler.minVersion
  pollingRequestErrors,  \* RequestHandler.pollingRequestErrors
  requestImplementation, \* RequestHandler.requestImplementation
  connectVersion,        \* sharedInternals.connectVersion (module level)
  versionException,      \* what Utils.checkVersionException() returns
  initCalled,            \* init has run
  adapterInit,           \* requestImplementation.init(options) has run
  adapterStopped,        \* requestImplementation.stop() has run
  timerArmed,            \* setTimeout(initializeTimeoutCallback) is pending
  detect,                \* extension detection: "none", "pending", then the
                         \* callbacks called: "success", "timedout", "both"
  detectPolicy,          \* what the timedout closure captured
  inflight,              \* httpRequest calls the adapter has not answered
  handed,                \* httpRequest calls made by the last event
  fired,                 \* caller callbacks invoked by the last event
  notified,              \* statuses given to the listener by the last event
  result,                \* what the last event returned or threw
  op,                    \* the last event
  answered,              \* the response the last event delivered, if any
  allocated,             \* every request id allocated so far, in order
  stopCalled,            \* stopRequests has been called
  agent,                 \* the agent: "up", "down" or "back" (up again)
  facadeConnectStatus,   \* connectStatus of Connect (connect.ts:199)
  statusListeners,       \* statusListeners of Connect (connect.ts:197)
  delivered,             \* listener calls of Connect made by the last event
  everReady,             \* the status has been RUNNING or OUTDATED
  initArgs,              \* the options init was given and the browser it ran in
  APPLICATION_ID,        \* APPLICATION_ID of Connect (connect.ts:166)
  transferListeners,     \* transferListeners of Connect (connect.ts:193)
  transferEventIntervalId, \* transferEventIntervalId of Connect: 0, or 1 for
                         \* the id of the polling interval
  args,                  \* the arguments of the last call of the page
  ownVersion,            \* the version last reported to this handler
  effects,               \* what the last event did to the status, the adapter,
                         \* the listener and the callbacks, in order
  invoked,               \* every caller callback invoked so far, in order
                         \* (kept by the events that tally them)
  outstandingActivityReqs \* outstandingActivityReqs of Connect (connect.ts:201)

vars ==
  <<connectStatus, nextId, idCallbackHash, requestQueue, statusListener,
    minVersion, pollingRequestErrors, requestImplementation, connectVersion,
    versionException, initCalled, adapterInit, adapterStopped, timerArmed,
    detect, detectPolicy, inflight, handed, fired, notified, result, op,
    answered, allocated, stopCalled, agent, facadeConnectStatus,
    statusListeners, delivered, everReady, initArgs, APPLICATION_ID,
    transferListeners, transferEventIntervalId, args, ownVersion, effects,
    invoked, outstandingActivityReqs>>

\* No response was delivered.
NoResponse == [id |-> -1, httpCode |-> -1, hasError |-> FALSE]

\* The state as one record, threaded through the operators below.
Cur ==
  [ connectStatus |-> connectStatus, nextId |-> nextId,
    idCallbackHash |-> idCallbackHash, requestQueue |-> requestQueue,
    statusListener |-> statusListener, minVersion |-> minVersion,
    pollingRequestErrors |-> pollingRequestErrors,
    requestImplementation |-> requestImplementation,
    connectVersion |-> connectVersion, versionException |-> versionException,
    initCalled |-> initCalled, adapterInit |-> adapterInit,
    adapterStopped |-> adapterStopped, timerArmed |-> timerArmed,
    detect |-> detect, detectPolicy |-> detectPolicy, inflight |-> inflight,
    handed |-> <<>>, fired |-> <<>>, notified |-> <<>>, result |-> "undefined",
    answered |-> NoResponse,
    allocated |-> allocated,
    stopCalled |-> stopCalled,
    agent |-> agent,
    facadeConnectStatus |-> facadeConnectStatus,
    statusListeners |-> statusListeners,
    delivered |-> <<>>,
    everReady |-> everReady,
    initArgs |-> initArgs,
    APPLICATION_ID |-> APPLICATION_ID,
    transferListeners |-> transferListeners,
    transferEventIntervalId |-> transferEventIntervalId,
    args |-> <<>>,
    ownVersion |-> ownVersion,
    effects |-> <<>>,
    invoked |-> invoked,
    outstandingActivityReqs |-> outstandingActivityReqs ]

Commit(s, name) ==
  /\ connectStatus' = s.connectStatus
  /\ nextId' = s.nextId
  /\ idCallbackHash' = s.idCallbackHash
  /\ requestQueue' = s.requestQueue
  /\ statusListener' = s.statusListener
  /\ minVersion' = s.minVersion
  /\ pollingRequestErrors' = s.pollingRequestErrors
  /\ requestImplementation' = s.requestImplementation
  /\ connectVersion' = s.connectVersion
  /\ versionException' = s.versionException
  /\ initCalled' = s.initCalled
  /\ adapterInit' = s.adapterInit
  /\ adapterStopped' = s.adapterStopped
  /\ timerArmed' = s.timerArmed
  /\ detect' = s.detect
  /\ detectPolicy' = s.detectPolicy
  /\ inflight' = s.inflight
  /\ handed' = s.handed
  /\ fired' = s.fired
  /\ notified' = s.notified
  /\ result' = s.result
  /\ op' = name
  /\ answered' = s.answered
  /\ allocated' = s.allocated
  /\ stopCalled' = s.stopCalled
  /\ agent' = s.agent
  /\ facadeConnectStatus' = s.facadeConnectStatus
  /\ statusListeners' = s.statusListeners
  /\ delivered' = s.delivered
  /\ everReady' = s.everReady
  /\ initArgs' = s.initArgs
  /\ APPLICATION_ID' = s.APPLICATION_ID
  /\ transferListeners' = s.transferListeners
  /\ transferEventIntervalId' = s.transferEventIntervalId
  /\ args' = s.args
  /\ ownVersion' = s.ownVersion
  /\ effects' = s.effects
  /\ invoked' = s.invoked
  /\ outstandingActivityReqs' = s.outstandingActivityReqs

(***************************************************************************)
(* Helpers of Utils and of String.                                         *)
(***************************************************************************)
\* Segment i of a dotted version, a missing segment counting as 0.
Segment(v, i) == IF i <= Len(v) THEN v[i] ELSE 0

\* Utils.versionLessThan(a, b): dotted-numeric compare, segment by segment.
versionLessThan(a, b) ==
  LET n == IF Len(a) >= Len(b) THEN Len(a) ELSE Len(b) IN
  \E i \in 1 .. n :
    /\ Segment(a, i) < Segment(b, i)
    /\ \A j \in 1 .. (i - 1) : Segment(a, j) = Segment(b, j)

\* String.prototype.indexOf(needle): the first 0-based position at which
\* needle occurs in path, -1 when it occurs nowhere.
indexOf(path, needle) ==
  LET hits == { i \in 0 .. (Len(path) - Len(needle)) :
                  \A k \in 1 .. Len(needle) : path[i + k] = needle[k] } IN
  IF hits = {} THEN -1 ELSE CHOOSE i \in hits : \A j \in hits : i <= j

\* Array.prototype.pop order: the queue read from its end.
Reverse(q) == [i \in 1 .. Len(q) |-> q[Len(q) + 1 - i]]

\* delete hash[id]
Delete(hash, id) == [k \in (DOMAIN hash) \ {id} |-> hash[k]]

\* hash[id] = info
Put(hash, id, info) ==
  [k \in (DOMAIN hash) \cup {id} |-> IF k = id THEN info ELSE hash[k]]

(***************************************************************************)
(* The adapter's httpRequest: the call is recorded, and the adapter owes   *)
(* one answer to the callback it was given (none when the callback is      *)
(* null).                                                                  *)
(***************************************************************************)
httpRequest(s, method, path, minVer, callback, requestId, via) ==
  [s EXCEPT
     !.handed = Append(@, [method |-> method, path |-> path,
                           min_version |-> minVer, callback |-> callback,
                           id |-> requestId, via |-> via]),
     !.inflight = IF callback = "null" THEN @
                  ELSE @ \cup {[id |-> requestId, callback |-> callback]},
     !.effects = Append(@, [kind |-> "send", id |-> requestId])]

(***************************************************************************)
(* RequestHandler.                                                         *)
(***************************************************************************)
\* The IRequest record kept in the pending table and in the queue.
RequestInfo(id, method, path, callbacks) ==
  [id |-> id, method |-> method, path |-> path, callbacks |-> callbacks]

RECURSIVE SendAll(_, _)
SendAll(s, q) ==
  IF q = <<>> THEN s
  ELSE SendAll(httpRequest(s, Head(q).method, Head(q).path, EmptyVersion,
                           "handleResponse", Head(q).id, "processQueue"),
               Tail(q))

\* processQueue with "if" in place of "while": one request is popped and sent.
processQueue_PopsOnce(s) ==
  IF s.requestQueue = <<>> THEN s
  ELSE SendAll([s EXCEPT !.requestQueue = SubSeq(@, 1, Len(@) - 1)],
               <<s.requestQueue[Len(s.requestQueue)]>>)

\* processQueue with shift() in place of pop() (line 65): oldest first.
processQueue_OldestFirst(s) ==
  SendAll([s EXCEPT !.requestQueue = <<>>], s.requestQueue)

processQueue(s) ==
  SendAll([s EXCEPT !.requestQueue = <<>>], Reverse(s.requestQueue))

\* checkVersion with "this.nextId" in place of "this.nextId++".
checkVersion_NoIncrement(s) ==
  LET requestId == s.nextId
      requestInfo == RequestInfo(requestId, HTTP_METHOD.GET, VersionPath, "null")
      s1 == [s EXCEPT !.allocated = Append(@, requestId),
                      !.idCallbackHash = Put(@, requestId, requestInfo)]
  IN httpRequest(s1, HTTP_METHOD.GET, VersionPath, EmptyVersion,
                 "checkVersionCallback", requestId, "checkVersion")

checkVersion(s) ==
  LET requestId == s.nextId
      requestInfo == RequestInfo(requestId, HTTP_METHOD.GET, VersionPath, "null")
      s1 == [s EXCEPT !.nextId = @ + 1,
                      !.allocated = Append(@, requestId),
                      !.idCallbackHash = Put(@, requestId, requestInfo)]
  IN httpRequest(s1, HTTP_METHOD.GET, VersionPath, EmptyVersion,
                 "checkVersionCallback", requestId, "checkVersion")

\* this.statusListener(this.connectStatus), when a listener is registered.
NotifyListener(s) ==
  IF s.statusListener # "null"
    THEN [s EXCEPT !.notified = Append(@, s.connectStatus),
                   !.effects = Append(@, [kind |-> "notify", id |-> -1])]
    ELSE s

\* changeConnectStatus running processQueue for DEGRADED as for RUNNING
\* (line 77).
changeConnectStatus_DrainsOnDegraded(s, newConnectStatus) ==
  LET s1 == [s EXCEPT !.connectStatus = newConnectStatus,
                      !.everReady = @ \/ newConnectStatus \in {RUNNING, OUTDATED},
                      !.effects = Append(@, [kind |-> "status", id |-> -1])]
      s2 == IF s1.connectStatus \in {RUNNING, DEGRADED}
              THEN processQueue(s1) ELSE s1
  IN IF s2.connectStatus = DEGRADED
       THEN checkVersion(s2)
       ELSE NotifyListener(s2)

changeConnectStatus(s, newConnectStatus) ==
  LET s1 == [s EXCEPT !.connectStatus = newConnectStatus,
                      !.everReady = @ \/ newConnectStatus \in {RUNNING, OUTDATED},
                      !.effects = Append(@, [kind |-> "status", id |-> -1])]
      s2 == IF s1.connectStatus = RUNNING THEN processQueue(s1) ELSE s1
  IN IF s2.connectStatus = DEGRADED
       THEN checkVersion(s2)
       ELSE NotifyListener(s2)

\* RequireUpdate with MIN_SECURE_VERSION in place of this.minVersion in the
\* posted data.
RequireUpdate_PostsFloor(s) ==
  LET requestId == s.nextId
      requestInfo == RequestInfo(requestId, HTTP_METHOD.POST, UpdateRequirePath, "null")
      s1 == [s EXCEPT !.nextId = @ + 1,
                      !.allocated = Append(@, requestId),
                      !.idCallbackHash = Put(@, requestId, requestInfo)]
  IN httpRequest(s1, HTTP_METHOD.POST, UpdateRequirePath, MIN_SECURE_VERSION,
                 "null", requestId, "checkVersionCallback")

\* The update-require notification of checkVersionCallback (lines 113-121).
RequireUpdate(s) ==
  LET requestId == s.nextId
      requestInfo == RequestInfo(requestId, HTTP_METHOD.POST, UpdateRequirePath, "null")
      s1 == [s EXCEPT !.nextId = @ + 1,
                      !.allocated = Append(@, requestId),
                      !.idCallbackHash = Put(@, requestId, requestInfo)]
  IN httpRequest(s1, HTTP_METHOD.POST, UpdateRequirePath, s1.minVersion,
                 "null", requestId, "checkVersionCallback")

\* The version comparison and what follows it (lines 110-124).
CompareVersion(s) ==
  IF versionLessThan(s.connectVersion, s.minVersion)
    THEN RequireUpdate(changeConnectStatus(s, OUTDATED))
    ELSE changeConnectStatus(s, RUNNING)

\* checkVersionCallback without the floor of lines 107-109.
checkVersionCallback_NoFloor(s, response, requestId) ==
  LET s1 == [s EXCEPT !.idCallbackHash = Delete(@, requestId)] IN
  IF response.httpCode = 200 /\ response.hasError
    THEN s1
    ELSE
      LET s2 == IF response.httpCode = 200
                  THEN [s1 EXCEPT !.connectVersion = response.version,
                                  !.ownVersion = response.version]
                  ELSE s1
      IN
      IF s2.connectStatus = OUTDATED /\ ~s2.versionException
        THEN s2
        ELSE IF ~s2.versionException
               THEN CompareVersion(s2)
               ELSE changeConnectStatus(s2, RUNNING)

\* checkVersionCallback with the floor of lines 107-109 applied after the
\* comparison of line 110 instead of before it.
checkVersionCallback_FloorAfterCompare(s, response, requestId) ==
  LET s1 == [s EXCEPT !.idCallbackHash = Delete(@, requestId)] IN
  IF response.httpCode = 200 /\ response.hasError
    THEN s1
    ELSE
      LET s2 == IF response.httpCode = 200
                  THEN [s1 EXCEPT !.connectVersion = response.version,
                                  !.ownVersion = response.version]
                  ELSE s1
      IN
      IF s2.connectStatus = OUTDATED /\ ~s2.versionException
        THEN s2
        ELSE IF ~s2.versionException
               THEN LET s3 == CompareVersion(s2) IN
                    IF s2.minVersion = EmptyVersion
                       \/ versionLessThan(s2.minVersion, MIN_SECURE_VERSION)
                      THEN [s3 EXCEPT !.minVersion = MIN_SECURE_VERSION]
                      ELSE s3
               ELSE changeConnectStatus(s2, RUNNING)

\* checkVersionCallback with "connectStatus == OUTDATED" alone as the test of
\* line 102: the override is not consulted there.
checkVersionCallback_StickyIgnoresOverride(s, response, requestId) ==
  LET s1 == [s EXCEPT !.idCallbackHash = Delete(@, requestId)] IN
  IF response.httpCode = 200 /\ response.hasError
    THEN s1
    ELSE
      LET s2 == IF response.httpCode = 200
                  THEN [s1 EXCEPT !.connectVersion = response.version,
                                  !.ownVersion = response.version]
                  ELSE s1
      IN
      IF s2.connectStatus = OUTDATED
        THEN s2
        ELSE
          IF ~s2.versionException
            THEN
              LET s3 == IF s2.minVersion = EmptyVersion
                           \/ versionLessThan(s2.minVersion, MIN_SECURE_VERSION)
                          THEN [s2 EXCEPT !.minVersion = MIN_SECURE_VERSION]
                          ELSE s2
              IN CompareVersion(s3)
            ELSE changeConnectStatus(s2, RUNNING)

checkVersionCallback(s, response, requestId) ==
  LET s1 == [s EXCEPT !.idCallbackHash = Delete(@, requestId)] IN
  IF response.httpCode = 200 /\ response.hasError
    THEN s1
    ELSE
      LET s2 == IF response.httpCode = 200
                  THEN [s1 EXCEPT !.connectVersion = response.version,
                                  !.ownVersion = response.version]
                  ELSE s1
      IN
      IF s2.connectStatus = OUTDATED /\ ~s2.versionException
        THEN s2
        ELSE
          IF ~s2.versionException
            THEN
              LET s3 == IF s2.minVersion = EmptyVersion
                           \/ versionLessThan(s2.minVersion, MIN_SECURE_VERSION)
                          THEN [s2 EXCEPT !.minVersion = MIN_SECURE_VERSION]
                          ELSE s2
              IN CompareVersion(s3)
            ELSE changeConnectStatus(s2, RUNNING)

\* callback(parsedResponse) of the callback pair of request requestId.
Fire(s, requestId, which) ==
  [s EXCEPT !.fired = Append(@, [id |-> requestId, callback |-> which]),
            !.effects = Append(@, [kind |-> "fire", id |-> requestId])]

\* The debounce test with the path left out: every request is debounced.
IsDebounced_AnyPath(s, requestInfo) ==
  s.pollingRequestErrors < MAX_POLLING_ERRORS

\* The debounce test of handleResponse (lines 152-153).
IsDebounced(s, requestInfo) ==
  /\ s.pollingRequestErrors < MAX_POLLING_ERRORS
  /\ indexOf(requestInfo.path, ActivityPath) > 0

\* handleResponse taking the oldest pending request in place of the one
\* stored under requestId (line 143): responses matched by send order.
handleResponse_BySendOrder(s, response, requestId) ==
  IF s.connectStatus = STOPPED THEN [s EXCEPT !.result = "null"]
  ELSE IF requestId \notin DOMAIN s.idCallbackHash THEN s
  ELSE
    LET requestInfo == s.idCallbackHash[CHOOSE k \in DOMAIN s.idCallbackHash :
                                          \A j \in DOMAIN s.idCallbackHash : k <= j] IN
    IF response.httpCode = 0
      THEN
        IF IsDebounced(s, requestInfo)
          THEN Fire([s EXCEPT !.pollingRequestErrors = @ + 1],
                    requestInfo.id, "error")
          ELSE [s EXCEPT !.requestQueue = Append(@, requestInfo),
                         !.result = "null"]
      ELSE
        LET s1 == IF s.connectStatus # RUNNING
                    THEN changeConnectStatus(s, RUNNING)
                    ELSE s
            s2 == IF response.httpCode = 200 /\ ~response.hasError
                    THEN Fire([s1 EXCEPT !.pollingRequestErrors = 0],
                              requestInfo.id, "success")
                    ELSE Fire(s1, requestInfo.id, "error")
        IN [s2 EXCEPT !.idCallbackHash = Delete(@, requestId),
                      !.result = "null"]

\* handleResponse invoking the callback (lines 164-174) before the promotion
\* to RUNNING (lines 161-163).
handleResponse_CallbackFirst(s, response, requestId) ==
  IF s.connectStatus = STOPPED THEN [s EXCEPT !.result = "null"]
  ELSE IF requestId \notin DOMAIN s.idCallbackHash THEN s
  ELSE
    LET requestInfo == s.idCallbackHash[requestId] IN
    IF response.httpCode = 0
      THEN
        IF IsDebounced(s, requestInfo)
          THEN Fire([s EXCEPT !.pollingRequestErrors = @ + 1],
                    requestInfo.id, "error")
          ELSE [s EXCEPT !.requestQueue = Append(@, requestInfo),
                         !.result = "null"]
      ELSE
        LET s1 == IF response.httpCode = 200 /\ ~response.hasError
                    THEN Fire([s EXCEPT !.pollingRequestErrors = 0],
                              requestInfo.id, "success")
                    ELSE Fire(s, requestInfo.id, "error")
            s2 == IF s1.connectStatus # RUNNING
                    THEN changeConnectStatus(s1, RUNNING)
                    ELSE s1
        IN [s2 EXCEPT !.idCallbackHash = Delete(@, requestId),
                      !.result = "null"]

\* handleResponse resetting pollingRequestErrors before the test of line 165,
\* on the error path as well.
handleResponse_ResetsOnError(s, response, requestId) ==
  IF s.connectStatus = STOPPED THEN [s EXCEPT !.result = "null"]
  ELSE IF requestId \notin DOMAIN s.idCallbackHash THEN s
  ELSE
    LET requestInfo == s.idCallbackHash[requestId] IN
    IF response.httpCode = 0
      THEN
        IF IsDebounced(s, requestInfo)
          THEN Fire([s EXCEPT !.pollingRequestErrors = @ + 1],
                    requestInfo.id, "error")
          ELSE [s EXCEPT !.requestQueue = Append(@, requestInfo),
                         !.result = "null"]
      ELSE
        LET s1 == IF s.connectStatus # RUNNING
                    THEN changeConnectStatus(s, RUNNING)
                    ELSE s
            s2 == IF response.httpCode = 200 /\ ~response.hasError
                    THEN Fire([s1 EXCEPT !.pollingRequestErrors = 0],
                              requestInfo.id, "success")
                    ELSE Fire([s1 EXCEPT !.pollingRequestErrors = 0],
                              requestInfo.id, "error")
        IN [s2 EXCEPT !.idCallbackHash = Delete(@, requestId),
                      !.result = "null"]

\* handleResponse with the promotion of lines 161-163 ahead of the lookup of
\* lines 143-148.
handleResponse_PromotesBeforeLookup(s, response, requestId) ==
  IF s.connectStatus = STOPPED THEN [s EXCEPT !.result = "null"]
  ELSE
    LET p == IF response.httpCode # 0 /\ s.connectStatus # RUNNING
               THEN changeConnectStatus(s, RUNNING)
               ELSE s
    IN
    IF requestId \notin DOMAIN p.idCallbackHash THEN p
    ELSE
      LET requestInfo == p.idCallbackHash[requestId] IN
      IF response.httpCode = 0
        THEN
          IF IsDebounced(p, requestInfo)
            THEN Fire([p EXCEPT !.pollingRequestErrors = @ + 1],
                      requestInfo.id, "error")
            ELSE [p EXCEPT !.requestQueue = Append(@, requestInfo),
                           !.result = "null"]
        ELSE
          LET s2 == IF response.httpCode = 200 /\ ~response.hasError
                      THEN Fire([p EXCEPT !.pollingRequestErrors = 0],
                                requestInfo.id, "success")
                      ELSE Fire(p, requestInfo.id, "error")
          IN [s2 EXCEPT !.idCallbackHash = Delete(@, requestId),
                        !.result = "null"]

\* handleResponse without the return of line 156: a debounced request has
\* its error callback invoked and goes on the queue as well.
handleResponse_DebounceFallsThrough(s, response, requestId) ==
  IF s.connectStatus = STOPPED THEN [s EXCEPT !.result = "null"]
  ELSE IF requestId \notin DOMAIN s.idCallbackHash THEN s
  ELSE
    LET requestInfo == s.idCallbackHash[requestId] IN
    IF response.httpCode = 0
      THEN
        LET d == IF IsDebounced(s, requestInfo)
                   THEN Fire([s EXCEPT !.pollingRequestErrors = @ + 1],
                             requestInfo.id, "error")
                   ELSE s
        IN [d EXCEPT !.requestQueue = Append(@, requestInfo),
                     !.result = "null"]
      ELSE
        LET s1 == IF s.connectStatus # RUNNING
                    THEN changeConnectStatus(s, RUNNING)
                    ELSE s
            s2 == IF response.httpCode = 200 /\ ~response.hasError
                    THEN Fire([s1 EXCEPT !.pollingRequestErrors = 0],
                              requestInfo.id, "success")
                    ELSE Fire(s1, requestInfo.id, "error")
        IN [s2 EXCEPT !.idCallbackHash = Delete(@, requestId),
                      !.result = "null"]

\* handleResponse running the delete of line 176 on the path of line 158
\* too: the request goes on the queue and its entry goes.
handleResponse_ForgetsRequeued(s, response, requestId) ==
  IF s.connectStatus = STOPPED THEN [s EXCEPT !.result = "null"]
  ELSE IF requestId \notin DOMAIN s.idCallbackHash THEN s
  ELSE
    LET requestInfo == s.idCallbackHash[requestId] IN
    IF response.httpCode = 0
      THEN
        IF IsDebounced(s, requestInfo)
          THEN Fire([s EXCEPT !.pollingRequestErrors = @ + 1],
                    requestInfo.id, "error")
          ELSE [s EXCEPT !.requestQueue = Append(@, requestInfo),
                         !.idCallbackHash = Delete(@, requestId),
                         !.result = "null"]
      ELSE
        LET s1 == IF s.connectStatus # RUNNING
                    THEN changeConnectStatus(s, RUNNING)
                    ELSE s
            s2 == IF response.httpCode = 200 /\ ~response.hasError
                    THEN Fire([s1 EXCEPT !.pollingRequestErrors = 0],
                              requestInfo.id, "success")
                    ELSE Fire(s1, requestInfo.id, "error")
        IN [s2 EXCEPT !.idCallbackHash = Delete(@, requestId),
                      !.result = "null"]

handleResponse(s, response, requestId) ==
  IF s.connectStatus = STOPPED THEN [s EXCEPT !.result = "null"]
  ELSE IF requestId \notin DOMAIN s.idCallbackHash THEN s
  ELSE
    LET requestInfo == s.idCallbackHash[requestId] IN
    IF response.httpCode = 0
      THEN
        IF IsDebounced(s, requestInfo)
          THEN Fire([s EXCEPT !.pollingRequestErrors = @ + 1],
                    requestInfo.id, "error")
          ELSE [s EXCEPT !.requestQueue = Append(@, requestInfo),
                         !.result = "null"]
      ELSE
        LET s1 == IF s.connectStatus # RUNNING
                    THEN changeConnectStatus(s, RUNNING)
                    ELSE s
            s2 == IF response.httpCode = 200 /\ ~response.hasError
                    THEN Fire([s1 EXCEPT !.pollingRequestErrors = 0],
                              requestInfo.id, "success")
                    ELSE Fire(s1, requestInfo.id, "error")
        IN [s2 EXCEPT !.idCallbackHash = Delete(@, requestId),
                      !.result = "null"]

\* startRequest without the "not RUNNING: queue it" branch (lines 209-212).
startRequest_AlwaysSends(s, method, path) ==
  LET requestId == s.nextId
      requestInfo == RequestInfo(requestId, method, path, "pair")
      s1 == [s EXCEPT !.nextId = @ + 1,
                      !.allocated = Append(@, requestId),
                      !.idCallbackHash = Put(@, requestId, requestInfo)]
      s2 == IF s1.connectStatus = DEGRADED THEN checkVersion(s1) ELSE s1
  IN [httpRequest(s2, method, path, EmptyVersion, "handleResponse",
                  requestId, "start")
        EXCEPT !.result = "null"]

\* startRequest without the re-check of lines 204-206.
startRequest_NoRecheck(s, method, path) ==
  LET requestId == s.nextId
      requestInfo == RequestInfo(requestId, method, path, "pair")
      s1 == [s EXCEPT !.nextId = @ + 1,
                      !.allocated = Append(@, requestId),
                      !.idCallbackHash = Put(@, requestId, requestInfo)]
  IN IF s1.connectStatus # RUNNING
       THEN [s1 EXCEPT !.requestQueue = Append(@, requestInfo),
                       !.result = "null"]
       ELSE [httpRequest(s1, method, path, EmptyVersion, "handleResponse",
                         requestId, "start")
               EXCEPT !.result = "null"]

\* start once the request is accepted (lines 189-215).
startRequest(s, method, path) ==
  LET requestId == s.nextId
      requestInfo == RequestInfo(requestId, method, path, "pair")
      s1 == [s EXCEPT !.nextId = @ + 1,
                      !.allocated = Append(@, requestId),
                      !.idCallbackHash = Put(@, requestId, requestInfo)]
      s2 == IF s1.connectStatus = DEGRADED THEN checkVersion(s1) ELSE s1
  IN IF s2.connectStatus # RUNNING
       THEN [s2 EXCEPT !.requestQueue = Append(@, requestInfo),
                       !.result = "null"]
       ELSE [httpRequest(s2, method, path, EmptyVersion, "handleResponse",
                         requestId, "start")
               EXCEPT !.result = "null"]

\* start without the STOPPED check (lines 186-188).
start_NoStoppedCheck(s, method, path) == startRequest(s, method, path)

start(s, method, path) ==
  IF s.connectStatus = STOPPED
    THEN [s EXCEPT !.result = "null"]
    ELSE startRequest(s, method, path)

stopRequests(s) ==
  LET s1 == [s EXCEPT !.connectStatus = STOPPED, !.stopCalled = TRUE] IN
  IF s1.requestImplementation = "null"
    THEN [s1 EXCEPT !.result = "TypeError"]
    ELSE [s1 EXCEPT !.adapterStopped = TRUE, !.result = "true"]

\* setRequestImpl of init (lines 241-247); supported is what the adapter's
\* isSupportedByBrowser() answers.
setRequestImpl(s, impl, supported) ==
  LET s1 == [s EXCEPT !.requestImplementation = impl,
                      !.adapterStopped =
                         IF s.requestImplementation = impl THEN @ ELSE FALSE]
  IN IF ~supported
       THEN [s1 EXCEPT !.result = "error -1"]
       ELSE [s1 EXCEPT !.adapterInit = TRUE]

\* startInitTimeout of init (lines 248-256): arms the timer.
startInitTimeout(s) == [s EXCEPT !.timerArmed = TRUE]

\* initializeTimeoutCallback testing for RUNNING alone at line 250.
initializeTimeoutCallback_RunningOnly(s) ==
  LET s1 == [s EXCEPT !.timerArmed = FALSE] IN
  IF s1.connectStatus # RUNNING
    THEN changeConnectStatus(s1, FAILED)
    ELSE s1

\* initializeTimeoutCallback (lines 249-254).
initializeTimeoutCallback(s) ==
  LET s1 == [s EXCEPT !.timerArmed = FALSE] IN
  IF s1.connectStatus # RUNNING /\ s1.connectStatus # OUTDATED
    THEN changeConnectStatus(s1, FAILED)
    ELSE s1

\* setHttpRequestImpl of init (lines 257-261); its caller drops what
\* setRequestImpl returns.
setHttpRequestImpl(s, httpSupported) ==
  [setRequestImpl(startInitTimeout(s), "http", httpSupported)
     EXCEPT !.result = "undefined"]

\* The browser and installer facts init reads.
Environments ==
  [npapi : BOOLEAN, ext : BOOLEAN, http : BOOLEAN, safari : BOOLEAN,
   supportsInstall : BOOLEAN]

InitOptions == [minVersion : CallerMinVersions, connectMethod : {"", "http", "extension"}]

\* init testing for the HTTP adapter (line 269) before the plugin (line 235).
init_HttpBeforePlugin(s, options, env) ==
  LET s0 == changeConnectStatus(
              [s EXCEPT !.initCalled = TRUE,
                        !.initArgs = [options |-> options, env |-> env]],
              INITIALIZING)
      s1 == [s0 EXCEPT !.minVersion = options.minVersion]
      min39 == s1.minVersion # EmptyVersion
               /\ ~versionLessThan(s1.minVersion, <<3, 9>>)
  IN
  IF options.connectMethod = "http" \/ ~env.ext
    THEN setHttpRequestImpl(s1, env.http)
  ELSE IF env.npapi
    THEN [setRequestImpl(s1, "npapi", TRUE) EXCEPT !.result = "undefined"]
  ELSE [s1 EXCEPT !.detect = "pending",
                  !.detectPolicy =
                     [install |-> (options.connectMethod = "extension"
                                   \/ (env.supportsInstall /\ min39)),
                      safari |-> env.safari]]

init(s, options, env) ==
  LET s0 == changeConnectStatus(
              [s EXCEPT !.initCalled = TRUE,
                        !.initArgs = [options |-> options, env |-> env]],
              INITIALIZING)
      s1 == [s0 EXCEPT !.minVersion = options.minVersion]
      min39 == s1.minVersion # EmptyVersion
               /\ ~versionLessThan(s1.minVersion, <<3, 9>>)
  IN
  IF env.npapi
    THEN [setRequestImpl(s1, "npapi", TRUE) EXCEPT !.result = "undefined"]
  ELSE IF options.connectMethod = "http" \/ ~env.ext
    THEN setHttpRequestImpl(s1, env.http)
  ELSE [s1 EXCEPT !.detect = "pending",
                  !.detectPolicy =
                     [install |-> (options.connectMethod = "extension"
                                   \/ (env.supportsInstall /\ min39)),
                      safari |-> env.safari]]

\* The success callback given to detectExtension (lines 276-278).
detectSuccess(s) ==
  [setRequestImpl(
     [s EXCEPT !.detect = IF @ = "timedout" THEN "both" ELSE "success"],
     "extension", TRUE)
     EXCEPT !.result = "undefined"]

\* The timedout callback committing to the HTTP adapter at line 287, after
\* the install signal, in place of the extension adapter.
detectTimedout_InstallCommitsHttp(s, httpSupported) ==
  LET s1 == [s EXCEPT !.detect = IF @ = "success" THEN "both" ELSE "timedout"] IN
  IF s1.detectPolicy.install
    THEN
      LET s2 == IF s1.detectPolicy.safari
                  THEN startInitTimeout(s1)
                  ELSE changeConnectStatus(s1, EXTENSION_INSTALL)
      IN [setRequestImpl(s2, "http", httpSupported) EXCEPT !.result = "undefined"]
    ELSE setHttpRequestImpl(s1, httpSupported)

\* The timedout callback given to detectExtension (lines 279-291).
detectTimedout(s, httpSupported) ==
  LET s1 == [s EXCEPT !.detect = IF @ = "success" THEN "both" ELSE "timedout"] IN
  IF s1.detectPolicy.install
    THEN
      LET s2 == IF s1.detectPolicy.safari
                  THEN startInitTimeout(s1)
                  ELSE changeConnectStatus(s1, EXTENSION_INSTALL)
      IN [setRequestImpl(s2, "extension", TRUE) EXCEPT !.result = "undefined"]
    ELSE setHttpRequestImpl(s1, httpSupported)

addStatusListener(s) == [s EXCEPT !.statusListener = "listener"]

(***************************************************************************)
(* Connect (connect.ts), as far as it drives the handler and passes its    *)
(* status on.  dragDropEnabled is left at its default, false, so           *)
(* manageConnectStatus makes no request of its own (line 328).             *)
(***************************************************************************)
setConnectStatus(s, newStatus) == [s EXCEPT !.facadeConnectStatus = newStatus]

\* The loop of notifyStatusListeners: listener i is called before i + 1.
notifyStatusListeners(s, notifyStatus) ==
  [s EXCEPT !.delivered =
     @ \o [i \in 1 .. Len(s.statusListeners) |->
             [listener |-> s.statusListeners[i], status |-> notifyStatus]]]

manageConnectStatus(s, newStatus) ==
  LET s1 ==
        IF newStatus = INITIALIZING THEN setConnectStatus(s, INITIALIZING)
        ELSE IF newStatus = RETRYING THEN setConnectStatus(s, RETRYING)
        ELSE IF newStatus = FAILED THEN setConnectStatus(s, FAILED)
        ELSE IF newStatus = EXTENSION_INSTALL
          THEN setConnectStatus(s, EXTENSION_INSTALL)
        ELSE IF newStatus = WAITING THEN s
        ELSE IF newStatus = OUTDATED
          THEN IF s.facadeConnectStatus # OUTDATED
                 THEN setConnectStatus(s, OUTDATED)
                 ELSE s
        ELSE setConnectStatus(s, RUNNING)
  IN notifyStatusListeners(s1, s1.facadeConnectStatus)

\* The handler's listener is manageConnectStatus: it runs once for every
\* status the handler gave its listener, in that order.
RECURSIVE ManageAll(_, _)
ManageAll(s, statuses) ==
  IF statuses = <<>> THEN s
  ELSE ManageAll(manageConnectStatus(s, Head(statuses)), Tail(statuses))

\* An event of the handler with what Connect does within it.
Facade(s) == ManageAll(s, s.notified)

\* Connect.start (lines 1044-1061): a new handler with manageConnectStatus as
\* its listener, then init.
ConnectStart(s, options, env) ==
  IF s.APPLICATION_ID = ""
    THEN [s EXCEPT !.result = "error -1"]
    ELSE init(addStatusListener(s), options, env)

\* initSession without the test of line 485: a second call starts over.
initSession_StartsOver(s, applicationId, options, env) ==
  LET s1 == [s EXCEPT !.args = <<applicationId>>]
      s2 == [s1 EXCEPT !.APPLICATION_ID =
                          IF applicationId = "" THEN "stored" ELSE applicationId]
      s3 == ConnectStart(s2, options, env)
  IN IF s3.result \in {"null", "undefined"}
       THEN [s3 EXCEPT !.result = "app_id"]
       ELSE s3

\* Connect.initSession (lines 484-505).  Without an applicationId the id is
\* the one of local storage or a generated one: "stored".
initSession(s, applicationId, options, env) ==
  LET s1 == [s EXCEPT !.args = <<applicationId>>] IN
  IF s1.APPLICATION_ID # ""
    THEN [s1 EXCEPT !.result = "error -1 already initialized"]
    ELSE
      LET s2 == [s1 EXCEPT !.APPLICATION_ID =
                              IF applicationId = "" THEN "stored" ELSE applicationId]
          s3 == ConnectStart(s2, options, env)
      IN IF s3.result \in {"null", "undefined"}
           THEN [s3 EXCEPT !.result = "app_id"]
           ELSE s3

\* connectHttpRequest (lines 213-233); requestHandler is null until
\* Connect.start has made one, that is until init has been called.
connectHttpRequest(s, method, path) ==
  LET s1 == [s EXCEPT !.args = <<method, path>>] IN
  IF ~s1.initCalled
    THEN [s1 EXCEPT !.result = "null"]
    ELSE [start(s1, method, path) EXCEPT !.result = "null"]

\* getAllTransfersHelper (lines 246-253) with the iteration token Connect
\* keeps, which is 0 at first and is not null, undefined or ''.
getAllTransfersHelper(s) ==
  connectHttpRequest(s, HTTP_METHOD.POST, ActivityPath)

\* pollTranfersHelperFunction (lines 264-280), the function of the polling
\* interval; its two callbacks are PollCallback below.
pollTranfersHelperFunction(s) ==
  IF s.outstandingActivityReqs >= MAX_ACTIVITY_OUTSTANDING
    THEN s
    ELSE getAllTransfersHelper([s EXCEPT !.outstandingActivityReqs = @ + 1])

\* The loop of notifyTransferListeners (lines 255-262).
notifyTransferListeners(s) ==
  [s EXCEPT !.delivered =
     @ \o [i \in 1 .. Len(s.transferListeners) |->
             [listener |-> s.transferListeners[i], status |-> EVENT.TRANSFER]]]

\* The callbacks pollTranfersHelperFunction passes (lines 272-278).
PollCallback(s, which) ==
  LET s1 == [s EXCEPT !.outstandingActivityReqs = @ - 1] IN
  IF which = "success" THEN notifyTransferListeners(s1) ELSE s1

\* The callbacks of polls that an event of the handler invoked, run in the
\* order of their invocation.
RECURSIVE PollCallbacks(_, _)
PollCallbacks(s, calls) ==
  IF calls = <<>> THEN s
  ELSE PollCallbacks(PollCallback(s, Head(calls).callback), Tail(calls))

\* Connect.stop (lines 1178-1180): requestHandler.stopRequests(), whatever
\* requestHandler is.
stop(s) ==
  IF ~s.initCalled
    THEN [s EXCEPT !.result = "TypeError"]
    ELSE stopRequests(s)

\* Connect.addEventListener(type, listener) (lines 380-399), for a type that
\* is a string and a listener that is a function.
addEventListener(s, type, listener) ==
  LET s1 == [s EXCEPT !.args = <<type, listener>>]
      s2 == IF type \in {EVENT.TRANSFER, EVENT.ALL}
              THEN [s1 EXCEPT !.transferEventIntervalId = 1,
                              !.transferListeners = Append(@, listener)]
              ELSE s1
      s3 == IF type \in {EVENT.STATUS, EVENT.ALL}
              THEN [s2 EXCEPT !.statusListeners = Append(@, listener)]
              ELSE s2
  IN [s3 EXCEPT !.result = "null"]

\* The array removeEventListenerHelper leaves (lines 282-291): every
\* occurrence of listener is spliced out.
Spliced(listenerArray, listener) ==
  SelectSeq(listenerArray, LAMBDA x : x # listener)

\* What removeEventListenerHelper returns.
Found(listenerArray, listener) ==
  \E i \in DOMAIN listenerArray : listenerArray[i] = listener

\* listenerFound = listenerFound || removeEventListenerHelper(listener, array)
\* on the array named which: the helper is called only if nothing was found
\* so far.
RemoveUnlessFound(s, which, listener) ==
  IF s.result = "true" THEN s
  ELSE IF which = "transfer"
    THEN [s EXCEPT !.result = IF Found(s.transferListeners, listener)
                                THEN "true" ELSE "false",
                   !.transferListeners = Spliced(@, listener)]
    ELSE [s EXCEPT !.result = IF Found(s.statusListeners, listener)
                                THEN "true" ELSE "false",
                   !.statusListeners = Spliced(@, listener)]

\* array = [] with listenerFound = true, if the array is not empty.
Clear(s, which) ==
  IF which = "transfer"
    THEN IF s.transferListeners # <<>>
           THEN [s EXCEPT !.transferListeners = <<>>, !.result = "true"]
           ELSE s
    ELSE IF s.statusListeners # <<>>
           THEN [s EXCEPT !.statusListeners = <<>>, !.result = "true"]
           ELSE s

\* Connect.removeEventListener(type, listener) (lines 620-670); an argument
\* left out is "undefined", and type may be the listener itself.
removeEventListener(s, type, listener) ==
  LET s0 == [s EXCEPT !.args = <<type, listener>>, !.result = "false"]
      s1 ==
        IF type = "undefined"
          THEN Clear(Clear(s0, "transfer"), "status")
        ELSE IF type \notin {EVENT.ALL, EVENT.TRANSFER, EVENT.STATUS}
          THEN RemoveUnlessFound(RemoveUnlessFound(s0, "transfer", type),
                                 "status", type)
        ELSE IF listener = "undefined"
          THEN LET c1 == IF type \in {EVENT.TRANSFER, EVENT.ALL}
                           THEN Clear(s0, "transfer") ELSE s0
               IN IF type \in {EVENT.STATUS, EVENT.ALL}
                    THEN Clear(c1, "status") ELSE c1
        ELSE LET r1 == IF type \in {EVENT.TRANSFER, EVENT.ALL}
                         THEN RemoveUnlessFound(s0, "transfer", listener)
                         ELSE s0
             IN IF type \in {EVENT.STATUS, EVENT.ALL}
                  THEN RemoveUnlessFound(r1, "status", listener)
                  ELSE r1
  IN IF s1.transferListeners = <<>>
       THEN [s1 EXCEPT !.transferEventIntervalId = 0]
       ELSE s1

(***************************************************************************)
(* Initial state: a RequestHandler as constructed (lines 44-58), in a      *)
(* Connect as constructed (connect.ts:196-200).                            *)
(***************************************************************************)
Init ==
  /\ connectStatus = INITIALIZING
  /\ nextId = 0
  /\ idCallbackHash = <<>>
  /\ requestQueue = <<>>
  /\ statusListener = "null"
  /\ minVersion = EmptyVersion
  /\ pollingRequestErrors = 0
  /\ requestImplementation = "null"
  /\ connectVersion = EmptyVersion
  /\ versionException = FALSE
  /\ initCalled = FALSE
  /\ adapterInit = FALSE
  /\ adapterStopped = FALSE
  /\ timerArmed = FALSE
  /\ detect = "none"
  /\ detectPolicy = [install |-> FALSE, safari |-> FALSE]
  /\ inflight = {}
  /\ handed = <<>>
  /\ fired = <<>>
  /\ notified = <<>>
  /\ result = "undefined"
  /\ op = "new"
  /\ answered = NoResponse
  /\ allocated = <<>>
  /\ stopCalled = FALSE
  /\ agent = "up"
  /\ facadeConnectStatus = INITIALIZING
  /\ statusListeners = <<>>
  /\ delivered = <<>>
  /\ everReady = FALSE
  /\ initArgs =
       [options |-> [minVersion |-> EmptyVersion, connectMethod |-> ""],
        env |-> [npapi |-> FALSE, ext |-> FALSE, http |-> FALSE,
                 safari |-> FALSE, supportsInstall |-> FALSE]]
  /\ APPLICATION_ID = ""
  /\ transferListeners = <<>>
  /\ transferEventIntervalId = 0
  /\ args = <<>>
  /\ ownVersion = EmptyVersion
  /\ effects = <<>>
  /\ invoked = <<>>
  /\ outstandingActivityReqs = 0

(***************************************************************************)
(* Events.  The handler is driven the way Connect drives it: Connect.start *)
(* constructs it, registers the listener and calls init in one go, and     *)
(* every other call comes after that.                                      *)
(***************************************************************************)
\* An event is taken only while the ids it allocates stay below MaxId.
Within(s) == s.nextId <= MaxId

\* init in a browser without plugin and without extension: the handler
\* commits to the HTTP adapter and arms the initialize-timeout.
HttpEnvironments ==
  { env \in Environments :
      ~env.npapi /\ ~env.ext /\ env.http /\ ~env.safari /\ ~env.supportsInstall }

HttpOptions ==
  { o \in InitOptions : o.connectMethod = "http" /\ o.minVersion = EmptyVersion }

\* Connect.start: addStatusListener(manageConnectStatus), then init(options).
InitCall ==
  /\ ~initCalled
  /\ \E options \in HttpOptions, env \in HttpEnvironments :
       Commit(init(addStatusListener(Cur), options, env), "init")

\* detectExtension calls success: each callback is called at most once, and
\* nothing in init keeps the one from being called after the other.
DetectSuccess ==
  /\ detect \in {"pending", "timedout"}
  /\ Commit(detectSuccess(Cur), "detectSuccess")

\* detectExtension calls timedout.
DetectTimedout ==
  /\ detect \in {"pending", "success"}
  /\ Commit(detectTimedout(Cur, initArgs.env.http), "detectTimedout")

InitTimeout ==
  /\ timerArmed
  /\ Within(initializeTimeoutCallback(Cur))
  /\ Commit(initializeTimeoutCallback(Cur), "initializeTimeoutCallback")

\* A caller calls start with one of requests.
StartCallFrom(requests) ==
  \E r \in requests :
    /\ initCalled
    /\ Within(start(Cur, r.method, r.path))
    /\ Commit(start(Cur, r.method, r.path), "start")

StartCall == StartCallFrom(StartRequests)

StopCall ==
  /\ initCalled
  /\ Commit(stopRequests(Cur), "stopRequests")

\* The adapter calls options.callback (checkVersion): the agent is reachable.
AdapterReady ==
  /\ adapterInit /\ ~adapterStopped
  /\ Within(checkVersion(Cur))
  /\ Commit(checkVersion(Cur), "checkVersion")

\* The adapter calls options.requestStatusCallback (changeConnectStatus) with
\* one of signals.
AdapterStatusFrom(signals) ==
  /\ adapterInit /\ ~adapterStopped
  /\ \E sig \in signals :
       /\ Within(changeConnectStatus(Cur, sig))
       /\ Commit(changeConnectStatus(Cur, sig), "changeConnectStatus")

AdapterStatus == AdapterStatusFrom(AdapterSignals)

\* What the adapter passes to the callback of call.
Delivered(call, response) ==
  [id |-> call.id, httpCode |-> response.httpCode, hasError |-> response.hasError]

\* The adapter answers a version check with one of responses.
RespondVersionFrom(responses) ==
  \E call \in inflight, response \in responses :
    /\ call.callback = "checkVersionCallback"
    /\ LET s == checkVersionCallback(
                  [Cur EXCEPT !.inflight = @ \ {call},
                              !.answered = Delivered(call, response)],
                  response, call.id)
       IN Within(s) /\ Commit(s, "checkVersionCallback")

RespondVersion == RespondVersionFrom(VersionResponses)

\* The adapter answers a request sent by start or by processQueue with one
\* of responses.
RespondRequestFrom(responses) ==
  \E call \in inflight, response \in responses :
    /\ call.callback = "handleResponse"
    /\ LET s == handleResponse(
                  [Cur EXCEPT !.inflight = @ \ {call},
                              !.answered = Delivered(call, response)],
                  response, call.id)
       IN Within(s) /\ Commit(s, "handleResponse")

RespondRequest == RespondRequestFrom(RequestResponses)

\* The user chooses to continue with the installed version: from then on
\* Utils.checkVersionException() answers true.
SetVersionException ==
  /\ ~versionException
  /\ Commit([Cur EXCEPT !.versionException = TRUE], "setVersionException")

Next ==
  \/ InitCall
  \/ InitTimeout
  \/ StartCall
  \/ StopCall
  \/ AdapterReady
  \/ AdapterStatus
  \/ RespondVersion
  \/ RespondRequest

Spec == Init /\ [][Next]_vars

(***************************************************************************)
(* The version gate on its own: init with every caller minVersion, version *)
(* checks answered with every version, and the override being switched on. *)
(***************************************************************************)
GateOptions == { o \in InitOptions : o.connectMethod = "http" }

GateInitCall ==
  /\ ~initCalled
  /\ \E options \in GateOptions, env \in HttpEnvironments :
       Commit(init(addStatusListener(Cur), options, env), "init")

GateRespondVersion == RespondVersionFrom(GateVersionResponses)

GateNext ==
  \/ GateInitCall
  \/ AdapterReady
  \/ GateRespondVersion
  \/ SetVersionException

GateSpec == Init /\ [][GateNext]_vars

(***************************************************************************)
(* Transport selection: init with every option in every browser, the       *)
(* callbacks of detectExtension, the initialize-timeout and the readiness  *)
(* callback of the adapter chosen.                                         *)
(***************************************************************************)
SelectInitCall ==
  /\ ~initCalled
  /\ \E options \in InitOptions, env \in Environments :
       Commit(init(addStatusListener(Cur), options, env), "init")

SelectNext ==
  \/ SelectInitCall
  \/ DetectTimedout
  \/ DetectSuccess
  \/ InitTimeout
  \/ AdapterReady

SelectSpec == Init /\ [][SelectNext]_vars

(***************************************************************************)
(* Two handlers in one page: connectVersion is an object of the module      *)
(* sharedInternals, so the version checks of another RequestHandler write  *)
(* the connectVersion this one reads.                                      *)
(***************************************************************************)
\* Line 98 run by the other handler: its agent reported version v.
OtherHandlerRecords ==
  \E v \in GateAgentVersions :
    /\ v # connectVersion
    /\ Commit([Cur EXCEPT !.connectVersion = v], "otherHandler")

TwinNext ==
  \/ GateInitCall
  \/ AdapterReady
  \/ GateRespondVersion
  \/ OtherHandlerRecords

TwinSpec == Init /\ [][TwinNext]_vars

(***************************************************************************)
(* Replay of failed requests: the agent goes down once and comes back, and *)
(* the adapter answers httpCode 0 exactly while it is down.  A transfer    *)
(* start and the activity poll are the requests.                           *)
(***************************************************************************)
ReplayRequests ==
  { [method |-> "POST", path |-> TransferStartPath],
    [method |-> "POST", path |-> ActivityPath] }

\* The responses among all that the adapter can give in the agent's state.
AgentResponses(all) ==
  { r \in all : (r.httpCode = 0) <=> (agent = "down") }

AgentDown ==
  /\ agent = "up"
  /\ Commit([Cur EXCEPT !.agent = "down"], "agentDown")

AgentBack ==
  /\ agent = "down"
  /\ Commit([Cur EXCEPT !.agent = "back"], "agentBack")

ReplayStartCall == StartCallFrom(ReplayRequests)

ReplayRespondVersion == RespondVersionFrom(AgentResponses(VersionResponses))

ReplayRespondRequest == RespondRequestFrom(AgentResponses(RequestResponses))

ReplayNext ==
  \/ InitCall
  \/ InitTimeout
  \/ ReplayStartCall
  \/ AdapterReady
  \/ AdapterStatus
  \/ ReplayRespondVersion
  \/ ReplayRespondRequest
  \/ AgentDown
  \/ AgentBack

ReplaySpec == Init /\ [][ReplayNext]_vars

\* The same with the adapter reporting the agent reachable by a RUNNING
\* signal (which it can give only while it reaches the agent), and with what the event loop and the adapter contract guarantee:
\* the agent comes back, every httpRequest call is answered and the armed
\* timer fires.  The adapter owes no further signal and the caller owes no
\* further call.
AdapterRunning ==
  /\ agent # "down"
  /\ AdapterStatusFrom({RUNNING})

ReplayLiveNext ==
  \/ InitCall
  \/ InitTimeout
  \/ ReplayStartCall
  \/ AdapterRunning
  \/ ReplayRespondRequest
  \/ AgentDown
  \/ AgentBack

ReplayFairness ==
  /\ WF_vars(AgentBack)
  /\ WF_vars(ReplayRespondRequest)
  /\ WF_vars(InitTimeout)

ReplayLiveSpec == Init /\ [][ReplayLiveNext]_vars /\ ReplayFairness

(***************************************************************************)
(* Connect on top of the handler: the page registers status listeners and  *)
(* calls initSession and stop, in a browser without plugin and without     *)
(* extension that may or may not support the HTTP adapter.                 *)
(***************************************************************************)
\* Listener functions the page registers.
FacadeListeners == {"a", "b"}

FacadeEnvironments ==
  { env \in Environments :
      ~env.npapi /\ ~env.ext /\ ~env.safari /\ ~env.supportsInstall }

FacadeInitSession ==
  \E options \in HttpOptions, env \in FacadeEnvironments :
    /\ Within(initSession(Cur, "", options, env))
    /\ Commit(Facade(initSession(Cur, "", options, env)), "initSession")

FacadeAddEventListener ==
  \E listener \in FacadeListeners :
    /\ Len(statusListeners) < MaxListeners
    /\ Commit(addEventListener(Cur, EVENT.STATUS, listener), "addEventListener")

\* The page calls stop.
FacadeStop ==
  /\ Within(stop(Cur))
  /\ Commit(Facade(stop(Cur)), "stop")

FacadeInitTimeout ==
  /\ timerArmed
  /\ Within(initializeTimeoutCallback(Cur))
  /\ Commit(Facade(initializeTimeoutCallback(Cur)), "initializeTimeoutCallback")

FacadeAdapterReady ==
  /\ adapterInit /\ ~adapterStopped
  /\ Within(checkVersion(Cur))
  /\ Commit(Facade(checkVersion(Cur)), "checkVersion")

FacadeAdapterStatus ==
  /\ adapterInit /\ ~adapterStopped
  /\ \E sig \in AdapterSignals :
       /\ Within(changeConnectStatus(Cur, sig))
       /\ Commit(Facade(changeConnectStatus(Cur, sig)), "changeConnectStatus")

FacadeRespondVersion ==
  \E call \in inflight, response \in VersionResponses :
    /\ call.callback = "checkVersionCallback"
    /\ LET s == checkVersionCallback(
                  [Cur EXCEPT !.inflight = @ \ {call},
                              !.answered = Delivered(call, response)],
                  response, call.id)
       IN Within(s) /\ Commit(Facade(s), "checkVersionCallback")

FacadeNext ==
  \/ FacadeInitSession
  \/ FacadeAddEventListener
  \/ FacadeStop
  \/ FacadeInitTimeout
  \/ FacadeAdapterReady
  \/ FacadeAdapterStatus
  \/ FacadeRespondVersion

FacadeSpec == Init /\ [][FacadeNext]_vars

(***************************************************************************)
(* The session of a page: initSession with and without an application id,  *)
(* requests and stop, before and after initSession, with the adapter       *)
(* signalling statuses and the initialize-timeout.                         *)
(***************************************************************************)
\* applicationId given to initSession ('' when the page gives none).
SessionAppIds == {"", "app"}

\* The request of the page: an activity poll.
SessionRequests == { [method |-> "POST", path |-> ActivityPath] }

SessionInitSession ==
  \E applicationId \in SessionAppIds, options \in HttpOptions,
     env \in HttpEnvironments :
    /\ Within(initSession(Cur, applicationId, options, env))
    /\ Commit(Facade(initSession(Cur, applicationId, options, env)), "initSession")

SessionRequest ==
  \E r \in SessionRequests :
    /\ Within(connectHttpRequest(Cur, r.method, r.path))
    /\ Commit(Facade(connectHttpRequest(Cur, r.method, r.path)),
              "connectHttpRequest")

SessionNext ==
  \/ SessionInitSession
  \/ SessionRequest
  \/ FacadeStop
  \/ FacadeInitTimeout
  \/ FacadeAdapterStatus

SessionSpec == Init /\ [][SessionNext]_vars

(***************************************************************************)
(* The listeners of a page: listeners of every type added and removed,     *)
(* with and without the type, around initSession and the statuses the      *)
(* adapter signals.                                                        *)
(***************************************************************************)
ListenerAddEventListener ==
  \E type \in {EVENT.ALL, EVENT.TRANSFER, EVENT.STATUS},
     listener \in FacadeListeners :
    /\ Len(statusListeners) < MaxListeners
    /\ Len(transferListeners) < MaxListeners
    /\ Commit(addEventListener(Cur, type, listener), "addEventListener")

ListenerRemoveEventListener ==
  \E type \in {"undefined", EVENT.ALL, EVENT.TRANSFER, EVENT.STATUS}
                \cup FacadeListeners,
     listener \in {"undefined"} \cup FacadeListeners :
    /\ type \in FacadeListeners => listener = "undefined"
    /\ Commit(removeEventListener(Cur, type, listener), "removeEventListener")

ListenerNext ==
  \/ FacadeInitSession
  \/ ListenerAddEventListener
  \/ ListenerRemoveEventListener
  \/ FacadeAdapterStatus

ListenerSpec == Init /\ [][ListenerNext]_vars

(***************************************************************************)
(* Properties.                                                             *)
(***************************************************************************)
Range(f) == { f[i] : i \in DOMAIN f }

\* The handler's own fields.
handlerState ==
  <<connectStatus, nextId, idCallbackHash, requestQueue, statusListener,
    minVersion, pollingRequestErrors, requestImplementation>>

\* A path on the polling endpoint: it begins with '/connect/transfers/activity'.
IsPollingPath(path) == indexOf(path, ActivityPath) = 0

\* C1: once stopRequests has set the status to STOPPED, the status is STOPPED
\* in every later state, whatever response, timer or adapter callback arrives.
C1_StoppedIsTerminal == stopCalled => connectStatus = STOPPED

\* C2: once stopRequests has been called, no event makes an httpRequest call
\* on the adapter.
C2_NoRequestAfterStop == stopCalled => handed = <<>>

\* C3: once stopRequests has been called, a response delivered to
\* handleResponse invokes no callback and changes nothing in the handler.
C3_ResponseAfterStopDropped ==
  [][ (stopCalled /\ op' = "handleResponse")
        => (fired' = <<>> /\ handed' = <<>> /\ notified' = <<>>
            /\ UNCHANGED handlerState) ]_vars

\* C4: start called while the status is STOPPED returns null, allocates no
\* id, adds nothing to the pending table or to the queue and calls the
\* adapter not at all.
C4_StartWhileStopped ==
  [][ (connectStatus = STOPPED /\ op' = "start")
        => (/\ result' = "null"
            /\ nextId' = nextId
            /\ allocated' = allocated
            /\ idCallbackHash' = idCallbackHash
            /\ requestQueue' = requestQueue
            /\ handed' = <<>>
            /\ inflight' = inflight) ]_vars

C4_Witness ==
  /\ op = "start"
  /\ connectStatus = STOPPED
  /\ requestQueue # <<>>
  /\ nextId < MaxId

\* C5: every id allocated by start, by checkVersion and by the update-require
\* notification is larger than every id allocated before it, and every key of
\* the pending table and every queued request carries an allocated id.
C5_IdsUnique ==
  /\ \A i, j \in DOMAIN allocated : i < j => allocated[i] < allocated[j]
  /\ \A i \in DOMAIN allocated : allocated[i] < nextId
  /\ DOMAIN idCallbackHash \subseteq Range(allocated)
  /\ \A id \in DOMAIN idCallbackHash : idCallbackHash[id].id = id

\* All three allocation sites have been used.
C5_Witness ==
  /\ Len(allocated) = 3
  /\ \E a, b \in DOMAIN idCallbackHash :
       /\ idCallbackHash[a].callbacks = "pair"
       /\ idCallbackHash[b].path = UpdateRequirePath
  /\ op = "checkVersionCallback"

\* C6: a request is handed to the adapter with handleResponse only by the very
\* start call that created it, and then only with the status RUNNING, or by
\* processQueue within a transition to RUNNING: a request start has queued is
\* never sent before that transition.
C6_QueuedNotSentBeforeDrain ==
  \A i \in DOMAIN handed :
    handed[i].callback = "handleResponse" =>
      /\ connectStatus = RUNNING
      /\ \/ /\ handed[i].via = "start"
            /\ op = "start"
            /\ handed[i].id = allocated[Len(allocated)]
            /\ requestQueue = <<>> \/ \A k \in DOMAIN requestQueue :
                                        requestQueue[k].id # handed[i].id
         \/ /\ handed[i].via = "processQueue"
            /\ RUNNING \in Range(notified)

\* start has run with the status DEGRADED: the version check went out, the
\* caller's request went on the queue.
C6_Witness ==
  /\ op = "start"
  /\ connectStatus = DEGRADED
  /\ Len(handed) = 1
  /\ handed[1].callback = "checkVersionCallback"
  /\ requestQueue # <<>>
  /\ requestQueue[Len(requestQueue)].id = allocated[Len(allocated) - 1]

\* The calls processQueue made for request id within the calls h.
DrainCalls(h, id) ==
  { i \in DOMAIN h : h[i].id = id /\ h[i].via = "processQueue"
                     /\ h[i].callback = "handleResponse" }

\* C7: when an event has made a transition to RUNNING the queue is empty, and
\* every request that was in the queue has been handed to the adapter exactly
\* once by that event.
C7_DrainOnRunning ==
  [][ (RUNNING \in Range(notified'))
        => (/\ requestQueue' = <<>>
            /\ \A k \in DOMAIN requestQueue :
                 Cardinality(DrainCalls(handed', requestQueue[k].id)) = 1
            /\ \A i \in DOMAIN handed' :
                 handed'[i].via = "processQueue" =>
                   \E k \in DOMAIN requestQueue :
                     requestQueue[k].id = handed'[i].id) ]_vars

\* A version check has moved the status to RUNNING and two queued requests
\* went out.
C7_Witness ==
  /\ op = "checkVersionCallback"
  /\ connectStatus = RUNNING
  /\ requestQueue = <<>>
  /\ Len(handed) = 2
  /\ \A i \in DOMAIN handed : handed[i].via = "processQueue"

\* C8: for a pending request on the polling path, an httpCode-0 response
\* invokes the error callback at once and queues nothing while fewer than
\* MAX_POLLING_ERRORS such errors have been counted, and queues the request
\* without any callback after that.
C8_PollingDebounce ==
  [][ (/\ op' = "handleResponse"
       /\ answered'.httpCode = 0
       /\ connectStatus # STOPPED
       /\ answered'.id \in DOMAIN idCallbackHash
       /\ IsPollingPath(idCallbackHash[answered'.id].path))
        => IF pollingRequestErrors < MAX_POLLING_ERRORS
             THEN /\ fired' = <<[id |-> answered'.id, callback |-> "error"]>>
                  /\ requestQueue' = requestQueue
             ELSE /\ fired' = <<>>
                  /\ requestQueue' =
                       Append(requestQueue, idCallbackHash[answered'.id]) ]_vars

\* C9: a request whose success or error callback handleResponse has invoked
\* is no longer in the pending table when the event ends.
C9_FiredIsRemoved ==
  \A i \in DOMAIN fired : fired[i].id \notin DOMAIN idCallbackHash

\* C10: with the status OUTDATED and the override off, no response, neither
\* to a version check nor to an ordinary request, moves the status to RUNNING.
C10_OutdatedStays ==
  [][ (/\ connectStatus = OUTDATED
       /\ ~versionException
       /\ op' \in {"handleResponse", "checkVersionCallback"})
        => connectStatus' # RUNNING ]_vars

(***************************************************************************)
(* The version gate (checked under GateSpec).                              *)
(***************************************************************************)
\* The larger of two versions.
VersionMax(a, b) == IF versionLessThan(a, b) THEN b ELSE a

\* The minimum a version check enforces for a caller minVersion.
EffectiveMinimum(callerMin) == VersionMax(callerMin, MIN_SECURE_VERSION)

\* The step is a version-check response that reports a version; the version
\* it reports is connectVersion'.
ReportsVersion ==
  /\ op' = "checkVersionCallback"
  /\ answered'.httpCode = 200
  /\ ~answered'.hasError

\* The update-require POSTs among the calls h.
UpdatePosts(h) ==
  { i \in DOMAIN h : h[i].path = UpdateRequirePath
                     /\ h[i].method = HTTP_METHOD.POST }

\* C11: a version-check response reporting a version below the effective
\* minimum, with the override off and the status not OUTDATED, sets the status
\* to OUTDATED, notifies the listener with OUTDATED and hands exactly one POST
\* to '/connect/update/require' with min_version the effective minimum, which
\* is 3.8.0 when the caller gave no minVersion.
C11_OutdatedOnLowVersion ==
  [][ (/\ ReportsVersion
       /\ ~versionException
       /\ connectStatus # OUTDATED
       /\ versionLessThan(connectVersion', EffectiveMinimum(minVersion)))
        => (/\ connectStatus' = OUTDATED
            /\ notified' = <<OUTDATED>>
            /\ Cardinality(UpdatePosts(handed')) = 1
            /\ \A i \in UpdatePosts(handed') :
                 /\ handed'[i].min_version = EffectiveMinimum(minVersion)
                 /\ minVersion = EmptyVersion
                      => handed'[i].min_version = <<3, 8, 0>>) ]_vars

\* The agent reported 3.8.0 to a caller that asked for 3.9.0: OUTDATED, and
\* the POST carries 3.9.0.
C11_Witness ==
  /\ op = "checkVersionCallback"
  /\ answered.httpCode = 200 /\ ~answered.hasError
  /\ connectVersion = <<3, 8, 0>>
  /\ connectStatus = OUTDATED
  /\ notified = <<OUTDATED>>
  /\ Len(handed) = 1
  /\ handed[1].path = UpdateRequirePath
  /\ handed[1].min_version = <<3, 9, 0>>

\* C12 as stated: every version-check response that reports a version raises
\* the minimum to the larger of the caller's minVersion and 3.8.0, and leaves
\* the status OUTDATED when the version is below it and RUNNING otherwise
\* (the override off: what it changes is C14's matter).
C12_VerdictOfEveryCheck ==
  [][ (ReportsVersion /\ ~versionException)
        => (/\ minVersion' = EffectiveMinimum(minVersion)
            /\ connectStatus' =
                 IF versionLessThan(connectVersion', EffectiveMinimum(minVersion))
                   THEN OUTDATED ELSE RUNNING) ]_vars

\* C12 amended: the same for every version-check response that arrives with
\* the override off and the status not already OUTDATED.
C12_VerdictWhenGateOpen ==
  [][ (/\ ReportsVersion
       /\ ~versionException
       /\ connectStatus # OUTDATED)
        => (/\ minVersion' = EffectiveMinimum(minVersion)
            /\ connectStatus' =
                 IF versionLessThan(connectVersion', EffectiveMinimum(minVersion))
                   THEN OUTDATED ELSE RUNNING) ]_vars

\* The caller asked for 3.7.0, the floor made it 3.8.0, and the agent
\* reported exactly 3.8.0: RUNNING.
C12_Witness ==
  /\ op = "checkVersionCallback"
  /\ answered.httpCode = 200 /\ ~answered.hasError
  /\ ~versionException
  /\ minVersion = MIN_SECURE_VERSION
  /\ connectVersion = MIN_SECURE_VERSION
  /\ connectStatus = RUNNING
  /\ notified = <<RUNNING>>
  /\ DOMAIN idCallbackHash = {}

\* C13: a version-check response that reports the version the previous one
\* reported, the override not having been switched on in between, leaves the
\* status as the previous response left it.
C13_VersionCheckIdempotent ==
  [][ (/\ ReportsVersion
       /\ connectVersion' = connectVersion
       /\ ~(versionException /\ connectStatus = OUTDATED))
        => connectStatus' = connectStatus ]_vars

\* Two version checks were answered with 3.7.0: the first made the status
\* OUTDATED and posted the update-require, the second changed nothing.
C13_Witness ==
  /\ op = "checkVersionCallback"
  /\ answered.httpCode = 200 /\ ~answered.hasError
  /\ ~versionException
  /\ connectVersion = <<3, 7, 0>>
  /\ connectStatus = OUTDATED
  /\ handed = <<>> /\ notified = <<>>
  /\ allocated = <<0, 1, 2>>
  /\ DOMAIN idCallbackHash = {2}
  /\ inflight = {}

\* C14 as stated: with the override on, every version-check response leaves
\* the status RUNNING and hands no update-require POST to the adapter.
C14_OverrideAlwaysRunning ==
  [][ (op' = "checkVersionCallback" /\ versionException)
        => (/\ connectStatus' = RUNNING
            /\ UpdatePosts(handed') = {}) ]_vars

\* C14 amended: with the override on, a version-check response hands no
\* update-require POST to the adapter; it leaves the status RUNNING, also when
\* it was OUTDATED, unless it is a 200 response with an error payload, which
\* leaves the status as it was.
C14_OverrideSuppressesGate ==
  [][ (op' = "checkVersionCallback" /\ versionException)
        => (/\ UpdatePosts(handed') = {}
            /\ connectStatus' =
                 IF answered'.httpCode = 200 /\ answered'.hasError
                   THEN connectStatus ELSE RUNNING) ]_vars

\* The status was OUTDATED (the update-require is still in the pending
\* table), the override was switched on, and a response reporting 3.7.0 has
\* moved the status to RUNNING.
C14_Witness ==
  /\ op = "checkVersionCallback"
  /\ versionException
  /\ answered.httpCode = 200 /\ ~answered.hasError
  /\ connectVersion = <<3, 7, 0>>
  /\ connectStatus = RUNNING
  /\ notified = <<RUNNING>>
  /\ \E id \in DOMAIN idCallbackHash :
       idCallbackHash[id].path = UpdateRequirePath

\* C15: a response with a non-zero httpCode invokes no callback of any request
\* but the one whose id it carries, and, unless the handler is stopped,
\* invokes exactly one callback of that request: success for a 200 without
\* error payload, error otherwise.
C15_CallbackOfAnsweredRequest ==
  (op = "handleResponse" /\ answered.httpCode # 0)
    => /\ \A i \in DOMAIN fired : fired[i].id = answered.id
       /\ Len(fired) <= 1
       /\ connectStatus # STOPPED
            => /\ Len(fired) = 1
               /\ fired[1].callback =
                    IF answered.httpCode = 200 /\ ~answered.hasError
                      THEN "success" ELSE "error"

\* A response has been delivered while an older request was still
\* unanswered, and a callback of the answered request was invoked.
C15_Witness ==
  /\ op = "handleResponse"
  /\ answered.httpCode # 0
  /\ fired # <<>>
  /\ fired[1].id = answered.id
  /\ \E call \in inflight :
       call.callback = "handleResponse" /\ call.id < answered.id

(***************************************************************************)
(* Failed requests and their replay (checked under ReplaySpec and          *)
(* ReplayLiveSpec).                                                        *)
(***************************************************************************)
\* C16: an httpCode-0 response for a pending request whose path does not
\* contain '/connect/transfers/activity', delivered to a handler that is not
\* stopped, invokes no callback, appends the request to the queue, keeps the
\* pending table as it is and leaves the status unchanged.
C16_FailureQueuesSilently ==
  [][ (/\ op' = "handleResponse"
       /\ answered'.httpCode = 0
       /\ connectStatus # STOPPED
       /\ answered'.id \in DOMAIN idCallbackHash
       /\ indexOf(idCallbackHash[answered'.id].path, ActivityPath) = -1)
        => (/\ fired' = <<>>
            /\ requestQueue' = Append(requestQueue, idCallbackHash[answered'.id])
            /\ idCallbackHash' = idCallbackHash
            /\ connectStatus' = connectStatus
            /\ notified' = <<>>) ]_vars

\* A transfer start has failed with httpCode 0 while the status was RUNNING
\* and sits in the queue, still pending.
C16_Witness ==
  /\ op = "handleResponse"
  /\ answered.httpCode = 0
  /\ connectStatus = RUNNING
  /\ answered.id \in DOMAIN idCallbackHash
  /\ idCallbackHash[answered.id].path = TransferStartPath
  /\ requestQueue # <<>>
  /\ requestQueue[Len(requestQueue)] = idCallbackHash[answered.id]
  /\ fired = <<>>

\* A request has just been pushed back onto the queue after httpCode 0.
Requeued ==
  /\ op = "handleResponse"
  /\ answered.httpCode = 0
  /\ \E k \in DOMAIN requestQueue : requestQueue[k].id = answered.id

\* processQueue has just handed the queued requests to the adapter again.
Resent ==
  \E i \in DOMAIN handed : handed[i].via = "processQueue"

\* C17: a request pushed back onto the queue after an httpCode-0 response is
\* eventually handed to the adapter again, the agent having come back,
\* whatever the status was when the failure arrived.  Behaviours that use up
\* the ids of the model are left out, so that a behaviour refuting this ends
\* where start can still be called.
C17_RequeuedIsResent == Requeued ~> (Resent \/ nextId = MaxId)

(***************************************************************************)
(* Status listeners and initSession (checked under FacadeSpec).            *)
(***************************************************************************)
\* C18: every event that changes the handler's status gives the new status to
\* the handler's listener, last of all it gives it, and for each status given
\* Connect calls its listeners once each, in the order they were registered.
C18_EveryChangeNotifies ==
  [][ (initCalled /\ connectStatus' # connectStatus)
        => (/\ notified' # <<>>
            /\ notified'[Len(notified')] = connectStatus'
            /\ Len(delivered') = Len(notified') * Len(statusListeners)
            /\ \A k \in DOMAIN delivered' :
                 delivered'[k].listener =
                   statusListeners[((k - 1) % Len(statusListeners)) + 1]) ]_vars

\* C19: an event in which the adapter signals WAITING calls no status
\* listener registered with Connect.
C19_WaitingIsSilent ==
  (op = "changeConnectStatus" /\ connectStatus = WAITING) => delivered = <<>>

\* C20: initSession in a browser in which no adapter is supported (init has
\* chosen an adapter and not initialised it) returns the error with code -1.
C20_UnsupportedReturnsError ==
  [][ (/\ ~initCalled
       /\ op' = "initSession"
       /\ detect' = "none"
       /\ ~adapterInit')
        => result' = "error -1" ]_vars

(***************************************************************************)
(* The initialize-timeout (checked under Spec).                            *)
(***************************************************************************)
\* C21: when the initialize-timeout fires, the status becomes FAILED if it
\* was neither RUNNING nor OUTDATED at that moment, and stays what it was if
\* it was RUNNING or OUTDATED.
C21_TimeoutFailsUnlessReady ==
  [][ op' = "initializeTimeoutCallback"
        => IF connectStatus \notin {RUNNING, OUTDATED}
             THEN connectStatus' = FAILED
             ELSE connectStatus' = connectStatus ]_vars

\* The timeout has fired and forced FAILED, and the listener was told.
C21_Witness ==
  /\ op = "initializeTimeoutCallback"
  /\ connectStatus = FAILED
  /\ notified = <<FAILED>>

\* C22: once the status has been RUNNING or OUTDATED, the expiry of the
\* initialize-timeout does not force FAILED, whatever the status has become
\* since (stop left aside: what follows stopRequests is C1's matter).
C22_TimeoutCancelledOnceReady ==
  (op = "initializeTimeoutCallback" /\ everReady /\ ~stopCalled)
    => connectStatus # FAILED

(***************************************************************************)
(* Transport selection (checked under SelectSpec).                         *)
(***************************************************************************)
\* The install policy as the specification words it: the caller forced
\* 'extension', or extensions can be installed and minVersion is 3.9 or more.
InstallPolicyApplies ==
  \/ initArgs.options.connectMethod = "extension"
  \/ /\ initArgs.env.supportsInstall
     /\ ~versionLessThan(initArgs.options.minVersion, <<3, 9>>)

\* C23: when extension detection times out and the install policy applies,
\* the handler signals EXTENSION_INSTALL to its listener and commits to the
\* extension adapter; in every other timeout case it commits to the HTTP
\* adapter.
C23_TimeoutSignalsInstall ==
  [][ op' = "detectTimedout"
        => IF InstallPolicyApplies
             THEN /\ connectStatus' = EXTENSION_INSTALL
                  /\ notified' = <<EXTENSION_INSTALL>>
                  /\ requestImplementation' = "extension"
             ELSE requestImplementation' = "http" ]_vars

\* C23 amended: when the install policy applies the handler commits to the
\* extension adapter, signalling EXTENSION_INSTALL in every browser but
\* Safari without NPAPI, where it signals nothing, leaves the status as it is
\* and arms the initialize-timeout; in every other timeout case it commits to
\* the HTTP adapter.
C23_TimeoutInstallPolicy ==
  [][ op' = "detectTimedout"
        => IF InstallPolicyApplies
             THEN /\ requestImplementation' = "extension"
                  /\ IF initArgs.env.safari
                       THEN /\ connectStatus' = connectStatus
                            /\ notified' = <<>>
                            /\ timerArmed'
                       ELSE /\ connectStatus' = EXTENSION_INSTALL
                            /\ notified' = <<EXTENSION_INSTALL>>
                            /\ timerArmed' = timerArmed
             ELSE requestImplementation' = "http" ]_vars

\* Detection has timed out for a caller who forced nothing, with installable
\* extensions and minVersion 3.9.0: EXTENSION_INSTALL, extension adapter.
C23_Witness ==
  /\ op = "detectTimedout"
  /\ initArgs.options.connectMethod = ""
  /\ initArgs.options.minVersion = <<3, 9, 0>>
  /\ connectStatus = EXTENSION_INSTALL
  /\ requestImplementation = "extension"
  /\ adapterInit

\* C24: init commits to the plugin adapter at once, starting no detection
\* and arming no timer, whenever the plugin adapter is supported; otherwise,
\* whenever the caller forced 'http' or the extension adapter is not
\* supported, it commits to the HTTP adapter at once.
C24_DirectCommit ==
  [][ op' = "init"
        => IF initArgs'.env.npapi
             THEN /\ requestImplementation' = "npapi"
                  /\ adapterInit'
                  /\ detect' = "none"
                  /\ ~timerArmed'
             ELSE (initArgs'.options.connectMethod = "http" \/ ~initArgs'.env.ext)
                    => (requestImplementation' = "http" /\ detect' = "none") ]_vars

\* init has run where plugin and extension are both supported and the caller
\* forced 'http': the plugin adapter is committed, no timer is armed.
C24_Witness ==
  /\ op = "init"
  /\ initArgs.env.npapi /\ initArgs.env.ext
  /\ initArgs.options.connectMethod = "http"
  /\ requestImplementation = "npapi"
  /\ ~timerArmed

\* C25: once the handler has committed to an adapter, requestImplementation
\* keeps that adapter: no later callback of the detection puts another one in
\* its place.
C25_AdapterCommittedOnce ==
  [][ requestImplementation # "null"
        => requestImplementation' = requestImplementation ]_vars

(***************************************************************************)
(* The session of a page (checked under SessionSpec).                      *)
(***************************************************************************)
\* C26: a request call or a stop call made before initSession raises no
\* exception: it returns a value.
C26_NoThrowBeforeInit ==
  (~initCalled /\ op \in {"connectHttpRequest", "stop"}) => result # "TypeError"

\* C27: initSession called on a Connect whose session is initialised returns
\* the error and changes nothing: the application id, the handler and all its
\* fields, the adapter, the timer and the detection stay as they are, no
\* request is handed to the adapter and no listener is called.
C27_SecondInitSessionRejected ==
  [][ (APPLICATION_ID # "" /\ op' = "initSession")
        => (/\ result' = "error -1 already initialized"
            /\ APPLICATION_ID' = APPLICATION_ID
            /\ UNCHANGED handlerState
            /\ UNCHANGED <<initCalled, adapterInit, adapterStopped, timerArmed,
                           detect, inflight, initArgs, facadeConnectStatus,
                           stopCalled>>
            /\ handed' = <<>>
            /\ notified' = <<>>) ]_vars

\* initSession('app') has been rejected on a session that was initialised
\* without an id, with the handler running.
C27_Witness ==
  /\ op = "initSession"
  /\ args = <<"app">>
  /\ APPLICATION_ID = "stored"
  /\ result = "error -1 already initialized"
  /\ connectStatus = RUNNING

(***************************************************************************)
(* The listeners of a page (checked under ListenerSpec).                   *)
(***************************************************************************)
\* removeEventListener was called with a listener alone, or with ALL and a
\* listener.
RemovesListener ==
  /\ op = "removeEventListener"
  /\ \/ args[1] \in FacadeListeners
     \/ args[1] = EVENT.ALL /\ args[2] \in FacadeListeners

\* The listener that call names.
ListenerRemoved == IF args[1] \in FacadeListeners THEN args[1] ELSE args[2]

\* C28: after removeEventListener called with a listener alone, or with ALL
\* and a listener, that listener is registered neither for transfer events
\* nor for status events.
C28_ListenerRemovedFromBoth ==
  RemovesListener =>
    /\ ListenerRemoved \notin Range(transferListeners)
    /\ ListenerRemoved \notin Range(statusListeners)

(***************************************************************************)
(* Two handlers in one page (checked under TwinSpec).                      *)
(***************************************************************************)
\* C29: the status a handler reaches by a version check is decided by what
\* was reported to that handler: with the override off and the status not
\* OUTDATED, a response that is not an error payload gives OUTDATED if the
\* version last reported to this handler is below the effective minimum and
\* RUNNING if not, whatever another handler has recorded.
C29_VerdictFromOwnResponses ==
  [][ (/\ op' = "checkVersionCallback"
       /\ ~(answered'.httpCode = 200 /\ answered'.hasError)
       /\ ~versionException
       /\ connectStatus # OUTDATED)
        => connectStatus' =
             IF versionLessThan(ownVersion', EffectiveMinimum(minVersion))
               THEN OUTDATED ELSE RUNNING ]_vars

(***************************************************************************)
(* The order of what one response does (checked under Spec).               *)
(***************************************************************************)
\* C30: when a response with a non-zero httpCode arrives for a pending
\* request while the status is not RUNNING, the callback of that request is
\* the last thing the event does: the status has become RUNNING, every queued
\* request has been handed to the adapter and the listener has been told
\* before it; unless the handler is stopped, the callback is invoked.
C30_PromotionBeforeCallback ==
  [][ (/\ op' = "handleResponse"
       /\ answered'.httpCode # 0
       /\ answered'.id \in DOMAIN idCallbackHash
       /\ connectStatus # RUNNING)
        => LET n == Len(requestQueue) IN
           /\ connectStatus # STOPPED => fired' # <<>>
           /\ fired' # <<>> =>
                /\ connectStatus' = RUNNING
                /\ requestQueue' = <<>>
                /\ Len(effects') = n + 3
                /\ effects'[1].kind = "status"
                /\ \A i \in 2 .. (n + 1) : effects'[i].kind = "send"
                /\ { effects'[i].id : i \in 2 .. (n + 1) }
                     = { requestQueue[k].id : k \in DOMAIN requestQueue }
                /\ effects'[n + 2].kind = "notify"
                /\ effects'[n + 3] = [kind |-> "fire", id |-> answered'.id] ]_vars

\* A response has promoted the handler to RUNNING with two requests queued:
\* status, two sends and the listener before the callback.
C30_Witness ==
  /\ op = "handleResponse"
  /\ answered.httpCode # 0
  /\ Len(effects) = 5
  /\ effects[1].kind = "status"
  /\ effects[2].kind = "send" /\ effects[3].kind = "send"
  /\ effects[4].kind = "notify"
  /\ effects[5].kind = "fire"

(***************************************************************************)
(* Activity polling: a page adds a transfer listener, which starts the     *)
(* polling interval, before or after initSession; the interval fires, the  *)
(* adapter answers the polls and signals statuses, the page calls stop.    *)
(***************************************************************************)
PollInitSession ==
  \E options \in HttpOptions, env \in HttpEnvironments :
    /\ Within(initSession(Cur, "", options, env))
    /\ Commit(Facade(initSession(Cur, "", options, env)), "initSession")

PollAddEventListener ==
  /\ transferListeners = <<>>
  /\ Commit(addEventListener(Cur, EVENT.TRANSFER, "a"), "addEventListener")

\* The interval of line 390 fires.
PollTick ==
  /\ transferEventIntervalId # 0
  /\ Within(pollTranfersHelperFunction(Cur))
  /\ Commit(Facade(pollTranfersHelperFunction(Cur)), "pollTranfersHelperFunction")

\* The adapter answers a poll.
PollRespondRequest ==
  \E call \in inflight, response \in RequestResponses :
    /\ call.callback = "handleResponse"
    /\ LET s == handleResponse(
                  [Cur EXCEPT !.inflight = @ \ {call},
                              !.answered = Delivered(call, response)],
                  response, call.id)
       IN Within(s) /\ Commit(PollCallbacks(Facade(s), s.fired), "handleResponse")

PollAdapterStatus ==
  /\ adapterInit /\ ~adapterStopped
  /\ \E sig \in {RUNNING, WAITING} :
       /\ Within(changeConnectStatus(Cur, sig))
       /\ Commit(Facade(changeConnectStatus(Cur, sig)), "changeConnectStatus")

PollNext ==
  \/ PollInitSession
  \/ PollAdapterStatus
  \/ PollAddEventListener
  \/ PollTick
  \/ PollRespondRequest
  \/ FacadeStop

PollSpec == Init /\ [][PollNext]_vars

(***************************************************************************)
(* Stray responses: the adapter calls handleResponse with a request id     *)
(* that has no entry in idCallbackHash (the case of lines 143-148).        *)
(***************************************************************************)
StrayIds == (0 .. MaxId) \ DOMAIN idCallbackHash

StrayResponse ==
  /\ adapterInit
  /\ \E requestId \in StrayIds, response \in RequestResponses :
       LET s == handleResponse(
                  [Cur EXCEPT !.answered =
                     [id |-> requestId, httpCode |-> response.httpCode,
                      hasError |-> response.hasError]],
                  response, requestId)
       IN Within(s) /\ Commit(s, "handleResponse")

StrayNext ==
  \/ InitCall
  \/ StartCall
  \/ StopCall
  \/ AdapterReady
  \/ RespondVersion
  \/ RespondRequest
  \/ StrayResponse

StraySpec == Init /\ [][StrayNext]_vars

(***************************************************************************)
(* The life of a request: the events of Spec, with every callback that     *)
(* handleResponse invokes added to the tally invoked.                      *)
(***************************************************************************)
Tally(s) == [s EXCEPT !.invoked = @ \o s.fired]

LifeRespondRequest ==
  \E call \in inflight, response \in RequestResponses :
    /\ call.callback = "handleResponse"
    /\ LET s == handleResponse(
                  [Cur EXCEPT !.inflight = @ \ {call},
                              !.answered = Delivered(call, response)],
                  response, call.id)
       IN Within(s) /\ Commit(Tally(s), "handleResponse")

LifeNext ==
  \/ InitCall
  \/ StartCall
  \/ StopCall
  \/ AdapterReady
  \/ AdapterStatus
  \/ RespondVersion
  \/ LifeRespondRequest

LifeSpec == Init /\ [][LifeNext]_vars

(***************************************************************************)
(* Responses, re-checks and the replay order (checked under Spec).         *)
(***************************************************************************)
\* C31: a response with a non-zero httpCode for a pending request, delivered
\* to a handler that is not stopped, invokes exactly one callback of that
\* request: success, with the polling-error counter set to 0, for a 200
\* without error payload; error, with the counter left as it is, otherwise.
C31_OneCallbackAndReset ==
  [][ (/\ op' = "handleResponse"
       /\ answered'.httpCode # 0
       /\ answered'.id \in DOMAIN idCallbackHash
       /\ connectStatus # STOPPED)
        => IF answered'.httpCode = 200 /\ ~answered'.hasError
             THEN /\ fired' = <<[id |-> answered'.id, callback |-> "success"]>>
                  /\ pollingRequestErrors' = 0
             ELSE /\ fired' = <<[id |-> answered'.id, callback |-> "error"]>>
                  /\ pollingRequestErrors' = pollingRequestErrors ]_vars

\* An error answer has invoked the error callback with polling errors
\* counted: the counter is still what it was.
C31_Witness ==
  /\ op = "handleResponse"
  /\ answered.httpCode = 500
  /\ fired = <<[id |-> answered.id, callback |-> "error"]>>
  /\ pollingRequestErrors > 0

\* C32: an event that is a transition to DEGRADED assigns the status and
\* hands exactly one GET '/connect/info/version' to the adapter within the
\* event, and nothing else: no queued request goes out and the queue is as
\* it was.
C32_DegradedRechecksOnce ==
  [][ (op' = "changeConnectStatus" /\ connectStatus' = DEGRADED)
        => (/\ Len(handed') = 1
            /\ handed'[1].method = HTTP_METHOD.GET
            /\ handed'[1].path = VersionPath
            /\ handed'[1].callback = "checkVersionCallback"
            /\ handed'[1].id = nextId
            /\ Len(effects') = 2
            /\ effects'[1].kind = "status"
            /\ effects'[2] = [kind |-> "send", id |-> nextId]
            /\ requestQueue' = requestQueue) ]_vars

\* The adapter has signalled DEGRADED with requests waiting in the queue.
C32_Witness ==
  /\ op = "changeConnectStatus"
  /\ connectStatus = DEGRADED
  /\ Len(handed) = 1
  /\ Len(requestQueue) = 2

\* C33: start called with the status DEGRADED hands one version-check GET
\* to the adapter and appends the caller's request to the queue without
\* handing it to the adapter; and no event hands a queued request to the
\* adapter unless it makes a transition to RUNNING.
C33_StartWhileDegraded ==
  [][ /\ (op' = "start" /\ connectStatus = DEGRADED)
          => (/\ Len(handed') = 1
              /\ handed'[1].path = VersionPath
              /\ handed'[1].callback = "checkVersionCallback"
              /\ handed'[1].id = nextId + 1
              /\ Len(requestQueue') = Len(requestQueue) + 1
              /\ SubSeq(requestQueue', 1, Len(requestQueue)) = requestQueue
              /\ requestQueue'[Len(requestQueue')].id = nextId
              /\ nextId \in DOMAIN idCallbackHash')
      /\ \A k \in DOMAIN requestQueue :
           (\E i \in DOMAIN handed' : handed'[i].id = requestQueue[k].id)
             => (connectStatus' = RUNNING /\ effects'[1].kind = "status") ]_vars

\* start has run with the status DEGRADED: the re-check went out under the
\* id that follows the id of the request now last in the queue.
C33_Witness ==
  /\ op = "start"
  /\ connectStatus = DEGRADED
  /\ Len(handed) = 1
  /\ handed[1].path = VersionPath
  /\ requestQueue # <<>>
  /\ handed[1].id = requestQueue[Len(requestQueue)].id + 1

\* The ids of the requests of a sequence of requests or of calls, in order.
Ids(q) == [i \in DOMAIN q |-> q[i].id]

\* The calls processQueue made among the calls h, in order.
Drained(h) == SelectSeq(h, LAMBDA c : c.via = "processQueue")

\* C34: in every event that drains the queue, processQueue hands the queued
\* requests to the adapter in the reverse of their order in the queue: the
\* request queued last goes first, the oldest last.
C34_ReplayNewestFirst ==
  [][ Drained(handed') # <<>>
        => Ids(Drained(handed')) = Reverse(Ids(requestQueue)) ]_vars

\* Two requests queued by start, the older with the smaller id, have been
\* drained: the newer went to the adapter first.
C34_Witness ==
  /\ Len(Drained(handed)) = 2
  /\ Drained(handed)[1].id > Drained(handed)[2].id
  /\ requestQueue = <<>>

\* C35: a response whose request id has no entry in the pending table
\* invokes no callback, sends nothing, notifies nobody and leaves the
\* status, the queue, the pending table, the id counter and the
\* polling-error counter as they were, whatever its httpCode.
C35_UnknownIdIsNoOp ==
  [][ (op' = "handleResponse" /\ answered'.id \notin DOMAIN idCallbackHash)
        => (/\ fired' = <<>>
            /\ handed' = <<>>
            /\ notified' = <<>>
            /\ connectStatus' = connectStatus
            /\ requestQueue' = requestQueue
            /\ idCallbackHash' = idCallbackHash
            /\ nextId' = nextId
            /\ pollingRequestErrors' = pollingRequestErrors) ]_vars

\* A 200 for an unknown id has reached a handler that is not RUNNING and
\* has requests queued and polling errors counted.
C35_Witness ==
  /\ op = "handleResponse"
  /\ answered.id \notin DOMAIN idCallbackHash
  /\ answered.httpCode = 200
  /\ connectStatus \notin {RUNNING, STOPPED}
  /\ requestQueue # <<>>

\* C37: over the whole life of the handler no request has a callback
\* invoked twice: every request id occurs at most once in the tally of the
\* callbacks invoked, every id in the tally was allocated by start, and no
\* event invokes more than one callback.
C37_AtMostOneCallback ==
  /\ \A i, j \in DOMAIN invoked : invoked[i].id = invoked[j].id => i = j
  /\ \A i \in DOMAIN invoked : invoked[i].id \in Range(allocated)
  /\ Len(fired) <= 1

\* Two requests have had a callback invoked, one of them by the debounce
\* branch, which keeps its entry in the pending table.
C37_Witness ==
  /\ op = "handleResponse"
  /\ fired # <<>>
  /\ Len(invoked) = 2
  /\ \E i \in DOMAIN invoked : invoked[i].id \in DOMAIN idCallbackHash

\* C38: every request in the queue is the entry of the pending table under
\* its id, and no request is in the queue twice.
C38_QueuedArePending ==
  /\ \A k \in DOMAIN requestQueue :
       /\ requestQueue[k].id \in DOMAIN idCallbackHash
       /\ idCallbackHash[requestQueue[k].id] = requestQueue[k]
  /\ \A j, k \in DOMAIN requestQueue :
       requestQueue[j].id = requestQueue[k].id => j = k

\* handleResponse has put a request answered with httpCode 0 back on the
\* queue, behind a request start had queued.
C38_Witness ==
  /\ op = "handleResponse"
  /\ answered.httpCode = 0
  /\ Len(requestQueue) = 2
  /\ requestQueue[2].id = answered.id

\* C36: a version-check response with httpCode 0, or with any code other
\* than 200, does not move the status to RUNNING from another status (stop
\* left aside: what follows stopRequests is C1's matter).
C36_FailedCheckNeverRuns ==
  [][ (/\ op' = "checkVersionCallback"
       /\ answered'.httpCode # 200
       /\ ~stopCalled)
        => ~(connectStatus # RUNNING /\ connectStatus' = RUNNING) ]_vars

\* C39: whenever getStatus() of Connect reports RUNNING, the status of the
\* handler is RUNNING.
C39_FacadeRunningIsEngineRunning ==
  facadeConnectStatus = RUNNING => connectStatus = RUNNING

\* The polls whose callback is still to come: those the adapter has not
\* answered and those waiting in the queue.
PollsAwaited ==
  Cardinality({ call \in inflight : call.callback = "handleResponse" })
    + Len(requestQueue)

\* C40: every poll counted in outstandingActivityReqs is a poll whose
\* callback is still to come, so that the count comes down again: the
\* counter is the number of polls in flight or queued, and it stays within
\* 0 .. MAX_ACTIVITY_OUTSTANDING.
C40_CountedPollsAreAwaited ==
  /\ outstandingActivityReqs \in 0 .. MAX_ACTIVITY_OUTSTANDING
  /\ outstandingActivityReqs = PollsAwaited

====
